---- MODULE Spec2Model ----
(***************************************************************************)
(* Model of app/utils/share.py: the share-link builder, the Clash,         *)
(* Clash-Meta and sing-box configuration builders, the format-variable     *)
(* resolver and the generation loop process_inbounds_and_tags.             *)
(*                                                                         *)
(* Python dicts are functions over their key set (a key that is absent is  *)
(* absent from DOMAIN), Python lists are sequences, None is the value      *)
(* None.  A string that can carry the wildcard character is a sequence of  *)
(* chunks in which every '*' is a chunk of its own.                        *)
(***************************************************************************)
EXTENDS Integers, Sequences, FiniteSets, TLC

VARIABLES conf, call, link_in, link_out, fmt, calls, heap

vars == <<conf, call, link_in, link_out, fmt, calls, heap>>

None == "None"

EmptyDict == [k \in {} |-> None]

Put(d, k, v) == (k :> v) @@ d

Has(d, k) == k \in DOMAIN d

\* dict.get(k, default)
Get(d, k, default) == IF k \in DOMAIN d THEN d[k] ELSE default

Range(s) == {s[i] : i \in DOMAIN s}

\* the empty string, for the strings kept as chunk sequences (SNI and host)
EmptyStr == <<>>

(***************************************************************************)
(* Bounds of the model.                                                    *)
(***************************************************************************)
MaxAdds == 3

\* host overrides per tag, and host overrides of one generation call
MaxHosts == 2

MaxEndpoints == 2

\* add calls on one sing-box configuration
MaxOutbounds == 2

\* consecutive render calls on one Clash configuration
MaxRenders == 2

(***************************************************************************)
(* ClashConfiguration / ClashMetaConfiguration                             *)
(***************************************************************************)

\* ClashConfiguration.__init__
ClashInit(is_meta) ==
    [kind          |-> IF is_meta THEN "clash-meta" ELSE "clash",
     proxies       |-> <<>>,
     proxy_remarks |-> <<>>]

\* f'{remark} ({c})'
Suffixed(remark, c) == remark \o " (" \o ToString(c) \o ")"

\* the while loop of _remark_validation, entered with counter c
RECURSIVE RemarkLoop(_, _, _)
RemarkLoop(proxy_remarks, remark, c) ==
    IF Suffixed(remark, c) \notin Range(proxy_remarks)
    THEN Suffixed(remark, c)
    ELSE RemarkLoop(proxy_remarks, remark, c + 1)

_remark_validation(proxy_remarks, remark) ==
    IF remark \notin Range(proxy_remarks)
    THEN remark
    ELSE RemarkLoop(proxy_remarks, remark, 2)

\* alpn.split(',') over the ALPN values of the model
SplitComma(alpn) ==
    IF alpn = "h2,http/1.1" THEN <<"h2", "http/1.1">> ELSE <<alpn>>

\* the tls part of ClashConfiguration.make_node
NodeTls(node, type, tls, sni, alpn) ==
    IF ~tls THEN node
    ELSE LET n1 == Put(node, "tls", TRUE)
             n2 == IF type = "trojan" THEN Put(n1, "sni", sni)
                                      ELSE Put(n1, "servername", sni)
         IN  IF alpn # "" THEN Put(n2, "alpn", SplitComma(alpn)) ELSE n2

\* the network options of ClashConfiguration.make_node
NetOpts(network, host, path) ==
    LET hasPath == path # ""
        hasHost == host # EmptyStr
    IN  CASE network = "ws" ->
               (IF hasPath THEN Put(EmptyDict, "path", path) ELSE EmptyDict)
               @@ (IF hasHost THEN Put(EmptyDict, "headers", [Host |-> host]) ELSE EmptyDict)
          [] network = "grpc" ->
               (IF hasPath THEN Put(EmptyDict, "grpc-service-name", path) ELSE EmptyDict)
          [] network = "h2" ->
               (IF hasPath THEN Put(EmptyDict, "path", path) ELSE EmptyDict)
               @@ (IF hasHost THEN Put(EmptyDict, "host", <<host>>) ELSE EmptyDict)
          [] network \in {"http", "tcp"} ->
               (IF hasPath \/ hasHost THEN Put(EmptyDict, "method", "GET") ELSE EmptyDict)
               @@ (IF hasPath THEN Put(EmptyDict, "path", <<path>>) ELSE EmptyDict)
               @@ (IF hasHost THEN Put(EmptyDict, "headers", [Host |-> host]) ELSE EmptyDict)
          [] OTHER -> EmptyDict

\* ClashConfiguration.make_node
make_node(proxy_remarks, name, type, server, port, network, tls, sni, host, path, udp, alpn) ==
    LET remark == _remark_validation(proxy_remarks, name)
        node   == ("name" :> remark) @@ ("type" :> type) @@ ("server" :> server)
                  @@ ("port" :> port) @@ ("network" :> network)
                  @@ ((network \o "-opts") :> EmptyDict) @@ ("udp" :> udp)
    IN  IF type = "ss" THEN node
        ELSE Put(NodeTls(node, type, tls, sni, alpn),
                 network \o "-opts", NetOpts(network, host, path))

\* ClashMetaConfiguration.make_node
meta_make_node(proxy_remarks, name, type, server, port, network, tls, sni, host, path, udp, alpn, fp, pbk, sid) ==
    LET node == make_node(proxy_remarks, name, type, server, port, network, tls, sni,
                          host, path, udp, alpn)
        n1   == IF fp # "" THEN Put(node, "client-fingerprint", fp) ELSE node
    IN  IF pbk # "" THEN Put(n1, "reality-opts", ("public-key" :> pbk) @@ ("short-id" :> sid))
        ELSE n1

\* self.data['proxies'].append(node); self.proxy_remarks.append(remark)
ClashAppend(c, node, remark) ==
    [c EXCEPT !.proxies = Append(@, node), !.proxy_remarks = Append(@, remark)]

\* ClashConfiguration.add
clash_add(c, remark, address, inbound, settings) ==
    LET node == make_node(c.proxy_remarks, remark, inbound.protocol, address, inbound.port,
                          inbound.network, inbound.tls = "tls", inbound.sni, inbound.host,
                          inbound.path, TRUE, Get(inbound, "alpn", ""))
    IN  CASE inbound.protocol = "vmess" ->
               ClashAppend(c, Put(Put(Put(node, "uuid", settings.id), "alterId", 0),
                                  "cipher", "auto"), remark)
          [] inbound.protocol \in {"trojan", "shadowsocks"} ->
               ClashAppend(c, Put(node, "password", settings.password), remark)
          [] OTHER -> c

\* the flow entry of ClashMetaConfiguration.add
MetaFlow(node, inbound, settings) ==
    IF inbound.network \in {"tcp", "kcp"}
    THEN Put(node, "flow", Get(settings, "flow", ""))
    ELSE node

\* ClashMetaConfiguration.add
clash_meta_add(c, remark, address, inbound, settings) ==
    LET node == meta_make_node(c.proxy_remarks, remark, inbound.protocol, address,
                               inbound.port, inbound.network,
                               inbound.tls \in {"tls", "reality"}, inbound.sni,
                               inbound.host, inbound.path, TRUE, Get(inbound, "alpn", ""),
                               Get(inbound, "fp", ""), Get(inbound, "pbk", ""),
                               Get(inbound, "sid", ""))
    IN  CASE inbound.protocol = "vmess" ->
               ClashAppend(c, Put(Put(Put(node, "uuid", settings.id), "alterId", 0),
                                  "cipher", "auto"), remark)
          [] inbound.protocol = "vless" ->
               ClashAppend(c, MetaFlow(Put(node, "uuid", settings.id), inbound, settings),
                           remark)
          [] inbound.protocol = "trojan" ->
               ClashAppend(c, MetaFlow(Put(node, "password", settings.password), inbound,
                                       settings), remark)
          [] inbound.protocol = "shadowsocks" ->
               ClashAppend(c, Put(node, "password", settings.password), remark)
          [] OTHER -> c

(***************************************************************************)
(* SingBoxConfiguration                                                    *)
(***************************************************************************)

\* SingBoxConfiguration.__init__: the parsed template
SingBoxInit(scaffold) == [kind |-> "sing-box", outbounds |-> scaffold]

\* SingBoxConfiguration.add_outbound
add_outbound(c, outbound_data) == [c EXCEPT !.outbounds = Append(@, outbound_data)]

\* [outbound["tag"] for outbound in outbounds if outbound["type"] in types]
RECURSIVE TagsOfTypes(_, _)
TagsOfTypes(outbounds, types) ==
    IF outbounds = <<>> THEN <<>>
    ELSE LET rest == TagsOfTypes(Tail(outbounds), types)
         IN  IF Head(outbounds).type \in types THEN <<Head(outbounds).tag>> \o rest
             ELSE rest

urltest_types == {"vmess", "vless", "trojan", "shadowsocks"}

\* a selector_types that also names the selectors
selector_types_all == {"vmess", "vless", "trojan", "shadowsocks", "urltest", "selector"}

selector_types == {"vmess", "vless", "trojan", "shadowsocks", "urltest"}

\* SingBoxConfiguration.render: the configuration that is serialised
singbox_render(c) ==
    LET urltest_tags  == TagsOfTypes(c.outbounds, urltest_types)
        selector_tags == TagsOfTypes(c.outbounds, selector_types)
    IN  [c EXCEPT !.outbounds =
            [i \in DOMAIN c.outbounds |->
                IF Get(c.outbounds[i], "type", None) = "urltest"
                THEN Put(c.outbounds[i], "outbounds", urltest_tags)
                ELSE IF Get(c.outbounds[i], "type", None) = "selector"
                THEN Put(c.outbounds[i], "outbounds", selector_tags)
                ELSE c.outbounds[i]]]

\* SingBoxConfiguration.tls_config; a falsy ais is FALSE.  same_obj is the outcome of the identity
\* comparison "tls is 'tls'", which depends on whether the runtime holds the
\* value and the literal as one object.
tls_config(sni, fp, tls, pbk, sid, alpn, ais, same_obj) ==
    LET c1 == IF tls \in {"tls", "reality"} THEN Put(EmptyDict, "enabled", TRUE)
              ELSE EmptyDict
        \* "sni is not None": make_outbound always passes a string
        c2 == Put(c1, "server_name", sni)
        c3 == IF tls = "tls" /\ same_obj /\ ais THEN Put(c2, "insecure", ais) ELSE c2
        r1 == IF pbk # "" THEN Put([enabled |-> TRUE], "public_key", pbk)
              ELSE [enabled |-> TRUE]
        r2 == IF sid # "" THEN Put(r1, "short_id", sid) ELSE r1
        c4 == IF tls = "reality" THEN Put(c3, "reality", r2) ELSE c3
        c5 == IF fp # "" THEN Put(c4, "utls", [enabled |-> TRUE, fingerprint |-> fp])
              ELSE c4
    IN  IF alpn # "" THEN Put(c5, "alpn", <<alpn>>) ELSE c5

\* SingBoxConfiguration.transport_config, called with type, host, path, headers
transport_config(transport_type, host, path, headers) ==
    LET t0 == IF transport_type # "" THEN Put(EmptyDict, "type", transport_type)
              ELSE EmptyDict
        h  == IF host # EmptyStr THEN Put(t0, "host", host) ELSE t0
        p  == IF path # "" THEN Put(EmptyDict, "path", path) ELSE EmptyDict
        hd == IF headers # "" THEN Put(EmptyDict, "headers", headers) ELSE EmptyDict
        tm == ("idle_timeout" :> "15s") @@ ("ping_timeout" :> "15s")
    IN  CASE transport_type = "http" -> h @@ p @@ hd @@ tm
          [] transport_type = "ws"   -> t0 @@ p @@ hd
          [] transport_type = "grpc" ->
               t0 @@ (IF path # "" THEN Put(EmptyDict, "service_name", path) ELSE EmptyDict)
                  @@ tm
          [] OTHER -> t0

\* SingBoxConfiguration.make_outbound
make_outbound(type, remark, address, port, net, path, host, flow, tls, sni, fp, alpn, pbk, sid, headers, ais, same_obj) ==
    LET c0    == ("type" :> type) @@ ("tag" :> remark) @@ ("server" :> address)
                 @@ ("server_port" :> port)
        c1    == IF net \in {"tcp", "kcp"} /\ flow # "" THEN Put(c0, "flow", flow) ELSE c0
        net2  == IF net = "h2" THEN "http" ELSE net
        alpn2 == IF net = "h2" THEN "h2" ELSE alpn
        c2    == IF net \in {"http", "ws", "quic", "grpc", "h2"}
                 THEN Put(c1, "transport", transport_config(net2, host, path, headers))
                 ELSE c1
    IN  IF tls \in {"tls", "reality"}
        THEN Put(c2, "tls", tls_config(sni, fp, tls, pbk, sid, alpn2, ais, same_obj))
        ELSE c2

\* SingBoxConfiguration.add
singbox_add(c, remark, address, inbound, settings, same_obj) ==
    LET outbound == make_outbound(inbound.protocol, remark, address, inbound.port,
                                  inbound.network, inbound.path, inbound.host,
                                  Get(settings, "flow", ""), inbound.tls, inbound.sni,
                                  Get(inbound, "fp", ""), Get(inbound, "alpn", ""),
                                  Get(inbound, "pbk", ""), Get(inbound, "sid", ""),
                                  inbound.header_type, Get(inbound, "ais", FALSE), same_obj)
    IN  add_outbound(c,
          CASE inbound.protocol \in {"vmess", "vless"} -> Put(outbound, "uuid", settings.id)
            [] inbound.protocol = "trojan" -> Put(outbound, "password", settings.password)
            [] inbound.protocol = "shadowsocks" ->
                 Put(Put(outbound, "password", settings.password), "method", settings.method)
            [] OTHER -> outbound)

(***************************************************************************)
(* V2rayShareLink and get_v2ray_link.  A link is the sequence of the parts *)
(* the code concatenates; base64, JSON, urlencode and quote are kept as    *)
(* the encodings of their argument.                                        *)
(***************************************************************************)

B64(x) == [b64 |-> x]

Quote(x) == [quote |-> x]

UrlEncode(payload) == [urlencode |-> payload]

\* the conditional TLS / reality entries of a link payload
LinkTls(payload, tls, sni, fp, alpn, pbk, sid, spx) ==
    CASE tls = "tls" ->
           ("sni" :> sni) @@ ("fp" :> fp) @@ ("alpn" :> alpn) @@ payload
      [] tls = "reality" ->
           ("sni" :> sni) @@ ("fp" :> fp) @@ ("pbk" :> pbk) @@ ("sid" :> sid)
           @@ ("spx" :> spx) @@ payload
      [] OTHER -> payload

\* V2rayShareLink.vmess
vmess(remark, address, port, id, host, net, path, type, tls, sni, fp, alpn, pbk, sid, spx) ==
    LET payload == ("add" :> address) @@ ("aid" :> "0") @@ ("host" :> host) @@ ("id" :> id)
                   @@ ("net" :> net) @@ ("path" :> path) @@ ("port" :> port)
                   @@ ("ps" :> remark) @@ ("scy" :> "auto") @@ ("tls" :> tls)
                   @@ ("type" :> type) @@ ("v" :> "2")
    IN  [scheme |-> "vmess://",
         parts  |-> <<B64(LinkTls(payload, tls, sni, fp, alpn, pbk, sid, spx))>>]

\* the query payload shared by V2rayShareLink.vless and V2rayShareLink.trojan
QueryPayload(net, path, host, type, flow, tls, sni, fp, alpn, pbk, sid, spx) ==
    LET p0 == ("security" :> tls) @@ ("type" :> net) @@ ("host" :> host)
              @@ ("headerType" :> type)
        p1 == IF flow # "" /\ net \in {"tcp", "kcp"} THEN Put(p0, "flow", flow) ELSE p0
        p2 == IF net = "grpc" THEN Put(p1, "serviceName", path) ELSE Put(p1, "path", path)
    IN  LinkTls(p2, tls, sni, fp, alpn, pbk, sid, spx)

\* V2rayShareLink.vless
vless(remark, address, port, id, net, path, host, type, flow, tls, sni, fp, alpn, pbk, sid, spx) ==
    [scheme |-> "vless://",
     parts  |-> <<id, "@", address, ":", port, "?",
                  UrlEncode(QueryPayload(net, path, host, type, flow, tls, sni, fp, alpn,
                                         pbk, sid, spx)),
                  "#", Quote(remark)>>]

\* V2rayShareLink.trojan
trojan(remark, address, port, password, net, path, host, type, flow, tls, sni, fp, alpn, pbk, sid, spx) ==
    [scheme |-> "trojan://",
     parts  |-> <<Quote(password), "@", address, ":", port, "?",
                  UrlEncode(QueryPayload(net, path, host, type, flow, tls, sni, fp, alpn,
                                         pbk, sid, spx)),
                  "#", Quote(remark)>>]

\* V2rayShareLink.shadowsocks
shadowsocks(remark, address, port, password, security) ==
    [scheme |-> "ss://",
     parts  |-> <<B64(<<security, ":", password>>), "@", address, ":", port, "#",
                  Quote(remark)>>]

\* get_v2ray_link
get_v2ray_link(remark, address, inbound, settings) ==
    CASE inbound.protocol = "vmess" ->
           vmess(remark, address, inbound.port, settings.id, inbound.host, inbound.network,
                 inbound.path, inbound.header_type, inbound.tls, Get(inbound, "sni", EmptyStr),
                 Get(inbound, "fp", ""), Get(inbound, "alpn", ""), Get(inbound, "pbk", ""),
                 Get(inbound, "sid", ""), Get(inbound, "spx", ""))
      [] inbound.protocol = "vless" ->
           vless(remark, address, inbound.port, settings.id, inbound.network, inbound.path,
                 inbound.host, inbound.header_type, Get(settings, "flow", ""), inbound.tls,
                 Get(inbound, "sni", EmptyStr), Get(inbound, "fp", ""), Get(inbound, "alpn", ""),
                 Get(inbound, "pbk", ""), Get(inbound, "sid", ""), Get(inbound, "spx", ""))
      [] inbound.protocol = "trojan" ->
           trojan(remark, address, inbound.port, settings.password, inbound.network,
                  inbound.path, inbound.host, inbound.header_type, Get(settings, "flow", ""),
                  inbound.tls, Get(inbound, "sni", EmptyStr), Get(inbound, "fp", ""),
                  Get(inbound, "alpn", ""), Get(inbound, "pbk", ""), Get(inbound, "sid", ""),
                  Get(inbound, "spx", ""))
      [] inbound.protocol = "shadowsocks" ->
           shadowsocks(remark, address, inbound.port, settings.password,
                       "chacha20-ietf-poly1305")
      [] OTHER -> [scheme |-> None, parts |-> <<>>]

(***************************************************************************)
(* format_time_left and setup_format_variables.  The clock is read as      *)
(* whole seconds plus a flag telling whether the microsecond part is zero. *)
(* DAYS_LEFT and TIME_LEFT hold an int, a str or None, kept apart by tags. *)
(***************************************************************************)

IntV(n) == [int |-> n]

StrV(s) == [str |-> s]

NoneV == [none |-> TRUE]

\* str(v), as format_map renders a value
PyStr(v) == IF Has(v, "int") THEN ToString(v.int)
            ELSE IF Has(v, "str") THEN v.str ELSE "None"

\* the character U+221E used by the code for "unlimited"
INFINITY == "inf"

SERVER_IP == "203.0.113.7"

SecondsPerDay == 86400

STATUS_EMOJIES ==
    [active |-> "[ok]", expired |-> "[expired]", limited |-> "[limited]",
     disabled |-> "[disabled]"]

\* app.utils.system.readable_size
readable_size(n) == "size(" \o ToString(n) \o ")"

\* ' '.join(result)
RECURSIVE JoinSpace(_)
JoinSpace(result) ==
    IF result = <<>> THEN ""
    ELSE IF Len(result) = 1 THEN result[1]
    ELSE result[1] \o " " \o JoinSpace(Tail(result))

\* format_time_left; now_sec is int(dt.now().timestamp())
format_time_left(expire, now_sec) ==
    LET seconds_left == expire - now_sec
        minutes0 == seconds_left \div 60
        seconds  == seconds_left % 60
        hours0   == minutes0 \div 60
        minutes  == minutes0 % 60
        days0    == hours0 \div 24
        hours    == hours0 % 24
        months   == days0 \div 30
        days     == days0 % 30
        r1 == IF months # 0 THEN <<ToString(months) \o "m">> ELSE <<>>
        r2 == IF days # 0 THEN <<ToString(days) \o "d">> ELSE <<>>
        r3 == IF hours # 0 /\ days < 7 THEN <<ToString(hours) \o "h">> ELSE <<>>
        r4 == IF minutes # 0 /\ ~(months # 0 \/ days # 0)
              THEN <<ToString(minutes) \o "m">> ELSE <<>>
        r5 == IF seconds # 0 /\ ~(months # 0 \/ days # 0)
              THEN <<ToString(seconds) \o "s">> ELSE <<>>
    IN  IF seconds_left <= 0 THEN NoneV
        ELSE StrV(JoinSpace(r1 \o r2 \o r3 \o r4 \o r5))

\* a day count that truncates toward zero instead of flooring
DeltaDaysTruncated(expire, now) ==
    LET d == IF now.usec_zero THEN expire - now.sec ELSE expire - now.sec - 1
    IN  IF d < 0 THEN 0 - ((0 - d) \div SecondsPerDay) ELSE d \div SecondsPerDay

\* (dt.fromtimestamp(expire) - dt.now()).days: the floor of the difference in
\* days; a non-zero microsecond part of now lowers the difference below the
\* whole number of seconds
DeltaDays(expire, now) ==
    IF now.usec_zero THEN (expire - now.sec) \div SecondsPerDay
    ELSE (expire - now.sec - 1) \div SecondsPerDay

\* the expiry branch of setup_format_variables: <<days_left, time_left>>;
\* now1 is the clock read by setup_format_variables, now2 by format_time_left
ExpiryVariables(extra_data, now1, now2) ==
    IF Get(extra_data, "expire", 0) > 0
    THEN LET days_left == DeltaDays(extra_data.expire, now1) + 1
         IN  IF ~(days_left > 0) THEN <<IntV(0), IntV(0)>>
             ELSE <<IntV(days_left), format_time_left(extra_data.expire, now2.sec)>>
    ELSE <<StrV(INFINITY), StrV(INFINITY)>>

\* the data branch of setup_format_variables: <<data_limit, data_left>>
DataVariables(extra_data) ==
    IF Get(extra_data, "data_limit", 0) # 0
    THEN LET data_left == extra_data.data_limit - extra_data.used_traffic
         IN  <<readable_size(extra_data.data_limit),
               readable_size(IF data_left < 0 THEN 0 ELSE data_left)>>
    ELSE <<INFINITY, INFINITY>>

\* setup_format_variables
setup_format_variables(extra_data, now1, now2) ==
    LET ev == ExpiryVariables(extra_data, now1, now2)
        dv == DataVariables(extra_data)
    IN  [SERVER_IP    |-> SERVER_IP,
         USERNAME     |-> Get(extra_data, "username", "{USERNAME}"),
         DATA_USAGE   |-> readable_size(extra_data.used_traffic),
         DATA_LIMIT   |-> dv[1],
         DATA_LEFT    |-> dv[2],
         DAYS_LEFT    |-> ev[1],
         TIME_LEFT    |-> ev[2],
         STATUS_EMOJI |-> Get(STATUS_EMOJIES, Get(extra_data, "status", None), "")]

(***************************************************************************)
(* str.format_map over a template: a sequence of literal parts [lit |-> s] *)
(* and replacement fields [key |-> k].                                     *)
(***************************************************************************)

\* the keys a template looks up
TemplateKeys(template) ==
    {template[i].key : i \in {j \in DOMAIN template : Has(template[j], "key")}}

\* format_map raises KeyError when the mapping (a plain dict) lacks a key
RaisesKeyError(template, format_variables) ==
    ~(TemplateKeys(template) \subseteq DOMAIN format_variables)

\* the text a replacement field or a literal part contributes
PartText(part, format_variables) ==
    IF Has(part, "lit") THEN part.lit
    ELSE IF part.key \in {"DAYS_LEFT", "TIME_LEFT"} THEN PyStr(format_variables[part.key])
    ELSE format_variables[part.key]

\* str.format_map when no key is missing
RECURSIVE format_map(_, _)
format_map(template, format_variables) ==
    IF template = <<>> THEN ""
    ELSE PartText(Head(template), format_variables)
         \o format_map(Tail(template), format_variables)

\* s.replace('*', salt, 1): only the first wildcard is replaced
ReplaceFirst(s, salt) ==
    [i \in DOMAIN s |->
        IF s[i] = "*" /\ (\A k \in 1..(i - 1) : s[k] # "*") THEN salt ELSE s[i]]

\* s.replace('*', salt)
Replace(s, salt) == [i \in DOMAIN s |-> IF s[i] = "*" THEN salt ELSE s[i]]

\* ProxyTypes.name
ProtocolName(protocol) ==
    CASE protocol = "vmess" -> "VMess"
      [] protocol = "vless" -> "VLESS"
      [] protocol = "trojan" -> "Trojan"
      [] protocol = "shadowsocks" -> "Shadowsocks"

(***************************************************************************)
(* Inputs of one generation call.                                          *)
(***************************************************************************)

Tags == {"t1", "t2"}

Salts == {"5f2a9c", "c09e11"}

\* user.inbounds: protocol -> tags, in the iteration order of the dict
UserInbounds ==
    { <<[protocol |-> "vmess", tags |-> <<"t1", "t2">>]>>,
      <<[protocol |-> "shadowsocks", tags |-> <<"t1">>],
        [protocol |-> "trojan", tags |-> <<"t2">>]>>,
      <<[protocol |-> "vless", tags |-> <<"t2">>],
        [protocol |-> "vmess", tags |-> <<"t1">>]>> }

\* settings.dict(no_obj=True) of each protocol of user.proxies
SettingsOf(protocol) ==
    CASE protocol = "vmess" -> [id |-> "uuid-vmess"]
      [] protocol = "vless" -> [id |-> "uuid-vless", flow |-> "xtls-rprx-vision"]
      [] protocol = "trojan" -> [password |-> "pw trojan", flow |-> ""]
      [] protocol = "shadowsocks" -> [password |-> "pw-ss", method |-> "aes-256-gcm"]

\* entries of xray.config.inbounds_by_tag
InboundDef(protocol, tag, variant) ==
    IF variant = "A"
    THEN [protocol |-> protocol, tag |-> tag, port |-> 443, network |-> "ws",
          tls |-> "tls",
          sni |-> << <<"*", ".cdn.example">>, <<"sni.example">> >>,
          host |-> << <<"*", ".", "*", ".host.example">> >>,
          path |-> "/ws", header_type |-> "none",
          alpn |-> "h2,http/1.1", fp |-> "chrome", ais |-> TRUE]
    ELSE [protocol |-> protocol, tag |-> tag, port |-> 8080, network |-> "tcp",
          tls |-> "none", sni |-> <<>>, host |-> <<>>,
          path |-> "", header_type |-> "http"]

\* entries of xray.hosts[tag]; port 0 stands for an unset port
HostChoices ==
    { [remark |-> <<[key |-> "USERNAME"], [lit |-> "-"], [key |-> "PROTOCOL"],
                    [lit |-> "/"], [key |-> "TRANSPORT"], [lit |-> " "],
                    [key |-> "DAYS_LEFT"]>>,
       address |-> <<[key |-> "SERVER_IP"]>>,
       port |-> 0, sni |-> <<>>, host |-> <<>>, tls |-> None, alpn |-> None,
       fingerprint |-> ""],
      [remark |-> <<[lit |-> "X"]>>,
       address |-> <<[lit |-> "edge.example"]>>,
       port |-> 8443,
       sni |-> << <<"*", ".over.example">>, <<"*", "-", "*", ".o2.example">> >>,
       host |-> << <<"h.", "*">> >>,
       tls |-> "tls", alpn |-> "h2", fingerprint |-> "firefox"],
      [remark |-> <<[lit |-> "X"]>>,
       address |-> <<[lit |-> "plain.example"]>>,
       port |-> 0, sni |-> <<>>, host |-> << <<"plain.example">> >>,
       tls |-> "", alpn |-> "", fingerprint |-> ""],
      [remark |-> <<[lit |-> "n-"], [key |-> "NODE"]>>,
       address |-> <<[key |-> "SERVER_IP"]>>,
       port |-> 2053, sni |-> <<>>, host |-> <<>>, tls |-> "none", alpn |-> None,
       fingerprint |-> ""] }

HostLists == UNION {[1..n -> HostChoices] : n \in 0..MaxHosts}

\* the second at which the clock of the model is first read
T0 == 1700000000

\* user.__dict__ of the users of the model; the clock of a generation call
Now == [sec |-> T0, usec_zero |-> FALSE]

Users ==
    { [username |-> "alice", expire |-> 1700000000 + 3 * SecondsPerDay,
       data_limit |-> 100, used_traffic |-> 40, status |-> "active"],
      [username |-> "bob", used_traffic |-> 7, status |-> "limited"] }

\* the outbounds of the rendered SINGBOX_SUBSCRIPTION_TEMPLATE
Scaffold ==
    << [type |-> "selector", tag |-> "proxy", outbounds |-> <<>>],
       [type |-> "urltest", tag |-> "auto", outbounds |-> <<>>],
       [type |-> "direct", tag |-> "direct"] >>

\* the config_format values generate_subscription dispatches on
Formats == {"v2ray", "clash", "clash-meta", "sing-box"}

\* the config_format values a request can carry; "outline" is none of the
\* four generate_subscription knows
RequestedFormats == Formats \cup {"outline"}

\* a dispatch whose last branch takes every other format
SupportedAny(config_format) == TRUE

\* the if / elif chain of generate_subscription finds a branch
Supported(config_format) == config_format \in Formats

\* the mode argument generate_v2ray_links, generate_clash_subscription and
\* generate_singbox_subscription pass on
ModeOf(config_format) ==
    IF config_format = "clash-meta" THEN "clash" ELSE config_format

\* the conf argument they build
NewConf(config_format) ==
    CASE config_format = "clash" -> ClashInit(FALSE)
      [] config_format = "clash-meta" -> ClashInit(TRUE)
      [] config_format = "sing-box" -> SingBoxInit(Scaffold)
      [] OTHER -> [kind |-> None]

NoCall == [pc |-> "unused"]

NoConf == [kind |-> "unused"]

NoLink == <<>>

NoFmt == [pc |-> "unused"]

NoCalls == <<>>

NoHeap == <<>>

(***************************************************************************)
(* generate_subscription and process_inbounds_and_tags, one generation     *)
(* call.  call.pc is the position: "request" at the entry of               *)
(* generate_subscription, "unsupported" after its ValueError, then the     *)
(* position in the three nested loops; pi, ti and hi index the protocol,   *)
(* the tag and the host override being visited.  call.handed lists the     *)
(* endpoints handed to get_v2ray_link or conf.add, call.renders counts the *)
(* conf.render calls.                                                      *)
(***************************************************************************)

\* the protocols user.inbounds names
ProtocolsOf(inbounds) == {inbounds[i].protocol : i \in DOMAIN inbounds}

\* the tags user.inbounds names, with the protocol that owns each
OwnerOf(inbounds, tag) ==
    CHOOSE p \in ProtocolsOf(inbounds) :
        \E i \in DOMAIN inbounds : inbounds[i].protocol = p /\ tag \in Range(inbounds[i].tags)

\* the state at the entry of process_inbounds_and_tags, as its callers
\* generate_v2ray_links / generate_clash_subscription /
\* generate_singbox_subscription set it up
NewCall(config_format, inbounds, proxies, inbounds_by_tag, hosts, extra_data) ==
    [pc |-> "start", mode |-> ModeOf(config_format),
     inbounds |-> inbounds, proxies |-> proxies,
     inbounds_by_tag |-> inbounds_by_tag, hosts |-> hosts,
     format_variables |-> setup_format_variables(extra_data, Now, Now),
     conf |-> NewConf(config_format),
     salt |-> None, salts_generated |-> 0, results |-> <<>>,
     pi |-> 0, ti |-> 0, hi |-> 0,
     host_inbound |-> EmptyDict, handed |-> <<>>, renders |-> 0,
     ret |-> None, error |-> None]

\* the state at the entry of generate_subscription: nothing is built yet
RequestCall(config_format, inbounds, proxies, inbounds_by_tag, hosts, extra_data) ==
    [pc |-> "request", config_format |-> config_format, extra_data |-> extra_data,
     mode |-> None, inbounds |-> inbounds, proxies |-> proxies,
     inbounds_by_tag |-> inbounds_by_tag, hosts |-> hosts,
     format_variables |-> EmptyDict, conf |-> [kind |-> None],
     salt |-> None, salts_generated |-> 0, results |-> <<>>,
     pi |-> 0, ti |-> 0, hi |-> 0,
     host_inbound |-> EmptyDict, handed |-> <<>>, renders |-> 0,
     ret |-> None, error |-> None]

\* one of the four branches of generate_subscription: the encoder and the
\* format variables are built and process_inbounds_and_tags is entered
DispatchCall(c) ==
    ("config_format" :> c.config_format) @@ ("extra_data" :> c.extra_data)
    @@ NewCall(c.config_format, c.inbounds, c.proxies, c.inbounds_by_tag, c.hosts,
               c.extra_data)

\* raise ValueError(f'Unsupported format "{config_format}"')
UnsupportedCall(c) ==
    [c EXCEPT !.pc = "unsupported",
              !.error = "ValueError: Unsupported format \"" \o c.config_format \o "\""]

CurProtocol(c) == c.inbounds[c.pi].protocol

CurTags(c) == c.inbounds[c.pi].tags

CurTag(c) == CurTags(c)[c.ti]

CurInbound(c) == c.inbounds_by_tag[CurTag(c)]

\* xray.hosts.get(tag, [])
CurHosts(c) == Get(c.hosts, CurTag(c), <<>>)

CurHost(c) == CurHosts(c)[c.hi]

\* salt = secrets.token_hex(8); results = []
StartCall(c, salt) ==
    [c EXCEPT !.pc = "protocol", !.salt = salt, !.salts_generated = @ + 1,
              !.results = <<>>, !.pi = 1]

\* settings = proxies.get(protocol); if not settings: continue
SkipProtocolCall(c) == [c EXCEPT !.pi = @ + 1]

\* format_variables.update({"PROTOCOL": protocol.name}); for tag in tags
EnterProtocolCall(c) ==
    [c EXCEPT !.pc = "tag", !.ti = 1,
              !.format_variables = Put(@, "PROTOCOL", ProtocolName(CurProtocol(c)))]

\* the tags of the protocol are exhausted
EndTagsCall(c) == [c EXCEPT !.pc = "protocol", !.pi = @ + 1]

\* a missing inbound that ends the tags of the protocol (break for continue)
SkipTagBreak(c) == [c EXCEPT !.pc = "protocol", !.pi = @ + 1]

\* inbound = xray.config.inbounds_by_tag.get(tag); if not inbound: continue
SkipTagCall(c) == [c EXCEPT !.ti = @ + 1]

\* format_variables.update({"TRANSPORT": ...}); host_inbound = inbound.copy()
EnterTagCall(c) ==
    [c EXCEPT !.pc = "host", !.hi = 1,
              !.format_variables = Put(@, "TRANSPORT", CurInbound(c).network),
              !.host_inbound = CurInbound(c)]

\* the host overrides of the tag are exhausted
EndHostsCall(c) == [c EXCEPT !.pc = "tag", !.ti = @ + 1]

\* a or b, for values whose falsy forms are None and ''
Or(a, b) == IF a \in {None, ""} THEN b ELSE a

\* host['sni'] or inbound['sni'], also used for the host list
OrList(a, b) == IF a # <<>> THEN a ELSE b

\* the outcomes of random.choice(list).replace('*', salt), '' for an empty list
Choices(list, salt) ==
    IF list = <<>> THEN {EmptyStr}
    ELSE {Replace(list[i], salt) : i \in DOMAIN list}

\* an update whose TLS mode falls back to the inbound's for every falsy value
UpdateHostInboundFalsyTls(host_inbound, host, inbound, sni, req_host) ==
    ("port" :> (IF host.port # 0 THEN host.port ELSE inbound.port))
    @@ ("sni" :> sni)
    @@ ("host" :> req_host)
    @@ ("tls" :> (IF host.tls \in {None, ""} THEN inbound.tls ELSE host.tls))
    @@ ("alpn" :> (IF host.alpn \in {None, ""} THEN Get(inbound, "alpn", "") ELSE host.alpn))
    @@ ("fp" :> (IF host.fingerprint \in {None, ""} THEN Get(inbound, "fp", "")
                 ELSE host.fingerprint))
    @@ host_inbound

\* host_inbound.update({...})
UpdateHostInbound(host_inbound, host, inbound, sni, req_host) ==
    ("port" :> (IF host.port # 0 THEN host.port ELSE inbound.port))
    @@ ("sni" :> sni)
    @@ ("host" :> req_host)
    @@ ("tls" :> (IF host.tls = None THEN inbound.tls ELSE host.tls))
    @@ ("alpn" :> Or(host.alpn, Get(inbound, "alpn", "")))
    @@ ("fp" :> Or(host.fingerprint, Get(inbound, "fp", "")))
    @@ host_inbound

\* lines 794-811: the SNI and host are chosen and host_inbound is updated
ResolveHostCall(c, sni, req_host) ==
    [c EXCEPT !.pc = "emit",
              !.host_inbound = UpdateHostInbound(@, CurHost(c), CurInbound(c), sni, req_host)]

\* the arguments of get_v2ray_link and of conf.add
Endpoint(c) ==
    [remark   |-> format_map(CurHost(c).remark, c.format_variables),
     address  |-> format_map(CurHost(c).address, c.format_variables),
     inbound  |-> c.host_inbound,
     settings |-> c.proxies[CurProtocol(c)]]

\* conf.add of the three builders
ConfAdd(conf_, e, same_obj) ==
    CASE conf_.kind = "clash" -> clash_add(conf_, e.remark, e.address, e.inbound, e.settings)
      [] conf_.kind = "clash-meta" ->
           clash_meta_add(conf_, e.remark, e.address, e.inbound, e.settings)
      [] conf_.kind = "sing-box" ->
           singbox_add(conf_, e.remark, e.address, e.inbound, e.settings, same_obj)

\* a format_map of lines 814-821 raises KeyError: the call ends with it
RaiseCall(c) == [c EXCEPT !.pc = "raised", !.error = "KeyError"]

\* lines 813-817: mode == "v2ray"
EmitLinkCall(c) ==
    LET e == Endpoint(c)
    IN  [c EXCEPT !.pc = "host", !.hi = @ + 1, !.handed = Append(@, e),
                  !.results = Append(@, get_v2ray_link(e.remark, e.address, e.inbound,
                                                       e.settings))]

\* lines 818-824: mode in ["clash", "sing-box"]
EmitAddCall(c, same_obj) ==
    LET e == Endpoint(c)
    IN  [c EXCEPT !.pc = "host", !.hi = @ + 1, !.handed = Append(@, e),
                  !.conf = ConfAdd(@, e, same_obj)]

\* the data ClashConfiguration.render hands to the template
clash_render(c) == [conf |-> [proxies |-> c.proxies], proxy_remarks |-> c.proxy_remarks]

\* a render that hands its nodes over and starts the next document empty
clash_after_render_draining(c) == [c EXCEPT !.proxies = <<>>]

\* the configuration ClashConfiguration.render leaves behind: render reads
\* self.data and self.proxy_remarks and assigns to neither
clash_after_render(c) == c

\* conf.render()
ConfRender(conf_) ==
    IF conf_.kind = "sing-box" THEN singbox_render(conf_) ELSE conf_

\* lines 826-829
FinishCall(c) ==
    IF c.mode \in {"clash", "sing-box"}
    THEN [c EXCEPT !.pc = "done", !.conf = ConfRender(@), !.renders = @ + 1,
                   !.ret = [rendered |-> IF c.conf.kind = "sing-box"
                                         THEN singbox_render(c.conf).outbounds
                                         ELSE clash_render(c.conf)]]
    ELSE [c EXCEPT !.pc = "done", !.ret = [links |-> c.results]]

\* the inbound variants a tag can carry in the model
VariantsOf(tag) == IF tag = "t1" THEN {"absent", "A"} ELSE {"absent", "B"}

RECURSIVE SumLen(_, _)
SumLen(f, S) ==
    IF S = {} THEN 0
    ELSE LET x == CHOOSE y \in S : TRUE IN Len(f[x]) + SumLen(f, S \ {x})

GenInit ==
    /\ \E config_format \in RequestedFormats, inbounds \in UserInbounds, extra_data \in Users :
         \E withSettings \in SUBSET ProtocolsOf(inbounds),
            defs \in [Tags -> {"absent", "A", "B"}],
            hs \in [Tags -> HostLists] :
              /\ \A t \in Tags : defs[t] \in VariantsOf(t)
              /\ SumLen(hs, Tags) <= MaxEndpoints
              /\ call = RequestCall(config_format, inbounds,
                                    [p \in withSettings |-> SettingsOf(p)],
                                    [t \in {u \in Tags : defs[u] # "absent"} |->
                                        InboundDef(OwnerOf(inbounds, t), t, defs[t])],
                                    hs, extra_data)
    /\ conf = NoConf
    /\ link_in = NoLink
    /\ link_out = NoLink
    /\ calls = NoCalls
    /\ heap = NoHeap
    /\ fmt = NoFmt

Dispatch ==
    /\ call.pc = "request"
    /\ Supported(call.config_format)
    /\ call' = DispatchCall(call)
    /\ UNCHANGED <<conf, link_in, link_out, fmt, calls, heap>>

Unsupported ==
    /\ call.pc = "request"
    /\ ~Supported(call.config_format)
    /\ call' = UnsupportedCall(call)
    /\ UNCHANGED <<conf, link_in, link_out, fmt, calls, heap>>

Start ==
    /\ call.pc = "start"
    /\ \E salt \in Salts : call' = StartCall(call, salt)
    /\ UNCHANGED <<conf, link_in, link_out, fmt, calls, heap>>

SkipProtocol ==
    /\ call.pc = "protocol"
    /\ call.pi <= Len(call.inbounds)
    /\ ~Has(call.proxies, CurProtocol(call))
    /\ call' = SkipProtocolCall(call)
    /\ UNCHANGED <<conf, link_in, link_out, fmt, calls, heap>>

EnterProtocol ==
    /\ call.pc = "protocol"
    /\ call.pi <= Len(call.inbounds)
    /\ Has(call.proxies, CurProtocol(call))
    /\ call' = EnterProtocolCall(call)
    /\ UNCHANGED <<conf, link_in, link_out, fmt, calls, heap>>

SkipTag ==
    /\ call.pc = "tag"
    /\ call.ti <= Len(CurTags(call))
    /\ ~Has(call.inbounds_by_tag, CurTag(call))
    /\ call' = SkipTagCall(call)
    /\ UNCHANGED <<conf, link_in, link_out, fmt, calls, heap>>

EnterTag ==
    /\ call.pc = "tag"
    /\ call.ti <= Len(CurTags(call))
    /\ Has(call.inbounds_by_tag, CurTag(call))
    /\ call' = EnterTagCall(call)
    /\ UNCHANGED <<conf, link_in, link_out, fmt, calls, heap>>

EndTags ==
    /\ call.pc = "tag"
    /\ call.ti > Len(CurTags(call))
    /\ call' = EndTagsCall(call)
    /\ UNCHANGED <<conf, link_in, link_out, fmt, calls, heap>>

ResolveHost ==
    /\ call.pc = "host"
    /\ call.hi <= Len(CurHosts(call))
    /\ \E sni \in Choices(OrList(CurHost(call).sni, CurInbound(call).sni), call.salt),
          req_host \in Choices(OrList(CurHost(call).host, CurInbound(call).host), call.salt) :
         call' = ResolveHostCall(call, sni, req_host)
    /\ UNCHANGED <<conf, link_in, link_out, fmt, calls, heap>>

EndHosts ==
    /\ call.pc = "host"
    /\ call.hi > Len(CurHosts(call))
    /\ call' = EndHostsCall(call)
    /\ UNCHANGED <<conf, link_in, link_out, fmt, calls, heap>>

Raise ==
    /\ call.pc = "emit"
    /\ \/ RaisesKeyError(CurHost(call).remark, call.format_variables)
       \/ RaisesKeyError(CurHost(call).address, call.format_variables)
    /\ call' = RaiseCall(call)
    /\ UNCHANGED <<conf, link_in, link_out, fmt, calls, heap>>

EmitLink ==
    /\ call.pc = "emit"
    /\ call.mode = "v2ray"
    /\ ~RaisesKeyError(CurHost(call).remark, call.format_variables)
    /\ ~RaisesKeyError(CurHost(call).address, call.format_variables)
    /\ call' = EmitLinkCall(call)
    /\ UNCHANGED <<conf, link_in, link_out, fmt, calls, heap>>

EmitAdd ==
    /\ call.pc = "emit"
    /\ call.mode \in {"clash", "sing-box"}
    /\ ~RaisesKeyError(CurHost(call).remark, call.format_variables)
    /\ ~RaisesKeyError(CurHost(call).address, call.format_variables)
    /\ \E same_obj \in BOOLEAN : call' = EmitAddCall(call, same_obj)
    /\ UNCHANGED <<conf, link_in, link_out, fmt, calls, heap>>

Finish ==
    /\ call.pc = "protocol"
    /\ call.pi > Len(call.inbounds)
    /\ call' = FinishCall(call)
    /\ UNCHANGED <<conf, link_in, link_out, fmt, calls, heap>>

GenNext ==
    \/ Dispatch
    \/ Unsupported
    \/ Start
    \/ SkipProtocol
    \/ EnterProtocol
    \/ SkipTag
    \/ EnterTag
    \/ EndTags
    \/ ResolveHost
    \/ EndHosts
    \/ Raise
    \/ EmitLink
    \/ EmitAdd
    \/ Finish

SpecGen == GenInit /\ [][GenNext]_vars

(***************************************************************************)
(* Two generation calls whose steps interleave.  The objects a call        *)
(* creates (its encoder, its format-variable dict, its results list, its   *)
(* host_inbound copy) live in heap, one arena per kind of object; a frame  *)
(* of calls is the call record with the address of each object in place of *)
(* the object, address 0 for a name that is not bound yet.  The inbound    *)
(* and host registries are the module-level xray.config.inbounds_by_tag    *)
(* and xray.hosts, the same for both calls.                                *)
(***************************************************************************)

\* a constructor that hands out the object it built before
AllocShared(arena, v) == IF arena = <<>> THEN <<v>> ELSE arena

\* a new object: ClashConfiguration(), SingBoxConfiguration(), the dict
\* literal of setup_format_variables, results = [], inbound.copy(); the
\* address of the object is the length of the arena
Alloc(arena, v) == Append(arena, v)

\* an in-place change (append, update, an assignment to a key) of the object
\* at address a
Mutate(arena, a, v) == IF a = 0 THEN arena ELSE [arena EXCEPT ![a] = v]

EmptyHeap == [conf |-> <<>>, format_variables |-> <<>>, results |-> <<>>, host_inbound |-> <<>>]

\* the call record a frame stands for
LoadCall(h, f) ==
    [f EXCEPT !.conf = IF @ = 0 THEN [kind |-> None] ELSE h.conf[@],
              !.format_variables = IF @ = 0 THEN EmptyDict ELSE h.format_variables[@],
              !.results = IF @ = 0 THEN <<>> ELSE h.results[@],
              !.host_inbound = IF @ = 0 THEN EmptyDict ELSE h.host_inbound[@]]

\* the frame of call record d, whose objects stay at the addresses of frame f
FrameOf(f, d) ==
    [d EXCEPT !.conf = f.conf, !.format_variables = f.format_variables,
              !.results = f.results, !.host_inbound = f.host_inbound]

\* the heap after the step from frame f to call record d changed the
\* objects of f in place
StoreCall(h, f, d) ==
    [conf             |-> Mutate(h.conf, f.conf, d.conf),
     format_variables |-> Mutate(h.format_variables, f.format_variables, d.format_variables),
     results          |-> Mutate(h.results, f.results, d.results),
     host_inbound     |-> Mutate(h.host_inbound, f.host_inbound, d.host_inbound)]

\* the steps call record c can take, as the actions of SpecGen take them
CallSteps(c) ==
    CASE c.pc = "request" ->
           IF Supported(c.config_format) THEN {DispatchCall(c)} ELSE {UnsupportedCall(c)}
      [] c.pc = "start" -> {StartCall(c, salt) : salt \in Salts}
      [] c.pc = "protocol" ->
           IF c.pi > Len(c.inbounds) THEN {FinishCall(c)}
           ELSE IF Has(c.proxies, CurProtocol(c)) THEN {EnterProtocolCall(c)}
           ELSE {SkipProtocolCall(c)}
      [] c.pc = "tag" ->
           IF c.ti > Len(CurTags(c)) THEN {EndTagsCall(c)}
           ELSE IF Has(c.inbounds_by_tag, CurTag(c)) THEN {EnterTagCall(c)}
           ELSE {SkipTagCall(c)}
      [] c.pc = "host" ->
           IF c.hi > Len(CurHosts(c)) THEN {EndHostsCall(c)}
           ELSE {ResolveHostCall(c, sni, req_host) :
                    sni \in Choices(OrList(CurHost(c).sni, CurInbound(c).sni), c.salt),
                    req_host \in Choices(OrList(CurHost(c).host, CurInbound(c).host), c.salt)}
      [] c.pc = "emit" ->
           IF \/ RaisesKeyError(CurHost(c).remark, c.format_variables)
              \/ RaisesKeyError(CurHost(c).address, c.format_variables)
           THEN {RaiseCall(c)}
           ELSE IF c.mode = "v2ray" THEN {EmitLinkCall(c)}
           ELSE IF c.mode \in {"clash", "sing-box"}
           THEN {EmitAddCall(c, same_obj) : same_obj \in BOOLEAN}
           ELSE {}
      [] OTHER -> {}

\* user.inbounds of the two users
PairInbounds ==
    <<[protocol |-> "vless", tags |-> <<"t2">>], [protocol |-> "vmess", tags |-> <<"t1">>]>>

\* xray.config.inbounds_by_tag
PairInboundsByTag ==
    [t \in Tags |-> IF t = "t1" THEN InboundDef("vmess", "t1", "A")
                    ELSE InboundDef("vless", "t2", "B")]

\* a host override whose remark names the user
UserHost ==
    CHOOSE h \in HostChoices : \E k \in DOMAIN h.remark : h.remark[k] = [key |-> "USERNAME"]

\* xray.hosts: one override for the first tag, none for the second
PairHosts == [t \in Tags |-> IF t = "t1" THEN <<UserHost>> ELSE <<>>]

\* user.__dict__ of the user of each call
PairUser(i) == CHOOSE u \in Users : u.username = IF i = 1 THEN "alice" ELSE "bob"

\* the protocols the user of each call has settings for
PairProtocols(i) == IF i = 1 THEN {"vless", "vmess"} ELSE {"vmess"}

\* the frame of a request
RequestFrame(config_format, proxies, extra_data) ==
    [RequestCall(config_format, PairInbounds, proxies, PairInboundsByTag, PairHosts,
                 extra_data)
     EXCEPT !.conf = 0, !.format_variables = 0, !.results = 0, !.host_inbound = 0]

PairInit ==
    /\ \E formats \in [1..2 -> Formats] :
         calls = [i \in 1..2 |->
                    RequestFrame(formats[i], [p \in PairProtocols(i) |-> SettingsOf(p)],
                                 PairUser(i))]
    /\ heap = EmptyHeap
    /\ conf = NoConf
    /\ call = NoCall
    /\ link_in = NoLink
    /\ link_out = NoLink
    /\ fmt = NoFmt

\* call i enters its generate_* function: conf = ...Configuration() and
\* format_variables = setup_format_variables(extra_data) are new objects
PairDispatch(i) ==
    /\ calls[i].pc = "request"
    /\ Supported(calls[i].config_format)
    /\ LET f     == calls[i]
           d     == DispatchCall(LoadCall(heap, f))
           confs == IF d.conf.kind = None THEN heap.conf ELSE Alloc(heap.conf, d.conf)
           fvs   == Alloc(heap.format_variables, d.format_variables)
       IN  /\ heap' = [heap EXCEPT !.conf = confs, !.format_variables = fvs]
           /\ calls' = [calls EXCEPT ![i] =
                          [FrameOf(f, d)
                           EXCEPT !.conf = IF d.conf.kind = None THEN 0 ELSE Len(confs),
                                  !.format_variables = Len(fvs)]]
    /\ UNCHANGED <<conf, call, link_in, link_out, fmt>>

\* call i draws its salt; results = [] is a new list
PairStart(i) ==
    /\ calls[i].pc = "start"
    /\ \E salt \in Salts :
         LET f    == calls[i]
             d    == StartCall(LoadCall(heap, f), salt)
             lsts == Alloc(heap.results, d.results)
         IN  /\ heap' = [heap EXCEPT !.results = lsts]
             /\ calls' = [calls EXCEPT ![i] = [FrameOf(f, d) EXCEPT !.results = Len(lsts)]]
    /\ UNCHANGED <<conf, call, link_in, link_out, fmt>>

\* call i enters a tag: format_variables.update changes its dict in place,
\* host_inbound = inbound.copy() is a new dict
PairEnterTag(i) ==
    /\ calls[i].pc = "tag"
    /\ LET f == calls[i]
           c == LoadCall(heap, f)
       IN  /\ c.ti <= Len(CurTags(c))
           /\ Has(c.inbounds_by_tag, CurTag(c))
           /\ LET d    == EnterTagCall(c)
                  dcts == Alloc(heap.host_inbound, d.host_inbound)
              IN  /\ heap' = [heap EXCEPT
                                !.format_variables =
                                    Mutate(@, f.format_variables, d.format_variables),
                                !.host_inbound = dcts]
                  /\ calls' = [calls EXCEPT ![i] =
                                 [FrameOf(f, d) EXCEPT !.host_inbound = Len(dcts)]]
    /\ UNCHANGED <<conf, call, link_in, link_out, fmt>>

\* every other step of call i: it changes the objects of the call in place
PairStep(i) ==
    /\ calls[i].pc \notin {"request", "start"}
    /\ LET f == calls[i]
           c == LoadCall(heap, f)
       IN  \E d \in CallSteps(c) :
              /\ ~(c.pc = "tag" /\ d.pc = "host")
              /\ heap' = StoreCall(heap, f, d)
              /\ calls' = [calls EXCEPT ![i] = FrameOf(f, d)]
    /\ UNCHANGED <<conf, call, link_in, link_out, fmt>>

PairNext ==
    \E i \in 1..2 :
        \/ PairDispatch(i)
        \/ PairStart(i)
        \/ PairEnterTag(i)
        \/ PairStep(i)

SpecPair == PairInit /\ [][PairNext]_vars

(***************************************************************************)
(* A Clash or Clash-Meta configuration driven by add and render calls.     *)
(* conf.calls counts the add calls; conf.requested lists the remarks that  *)
(* the adds which stored a node were called with; conf.renders lists what  *)
(* the render calls since the last add returned.                           *)
(***************************************************************************)

Protocols == {"vmess", "vless", "trojan", "shadowsocks"}

ClashRemarks == {"X", "Y", "X (2)"}

\* resolved inbounds (host_inbound) as process_inbounds_and_tags hands them on
EncInbounds ==
    {[InboundDef(p, "t1", "A") EXCEPT !.sni = <<"sni.example">>,
                                      !.host = <<"host.example">>] : p \in Protocols}
    \cup
    {("alpn" :> "") @@ ("fp" :> "")
     @@ [InboundDef(p, "t2", "B") EXCEPT !.sni = EmptyStr, !.host = EmptyStr] :
        p \in Protocols}

ClashSpecInit ==
    /\ \E is_meta \in BOOLEAN :
         conf = ("calls" :> 0) @@ ("requested" :> <<>>) @@ ("renders" :> <<>>)
                @@ ClashInit(is_meta)
    /\ call = NoCall
    /\ link_in = NoLink
    /\ link_out = NoLink
    /\ calls = NoCalls
    /\ heap = NoHeap
    /\ fmt = NoFmt

\* the bookkeeping of one add call that took conf from c to d
Counted(c, d, remark) ==
    [d EXCEPT !.calls = @ + 1,
              !.requested = IF Len(d.proxies) > Len(c.proxies) THEN Append(@, remark)
                            ELSE @,
              !.renders = <<>>]

ClashAdd ==
    /\ conf.kind = "clash"
    /\ conf.calls < MaxAdds
    /\ \E remark \in ClashRemarks, inbound \in EncInbounds :
         conf' = Counted(conf, clash_add(conf, remark, "server.example", inbound,
                                         SettingsOf(inbound.protocol)), remark)
    /\ UNCHANGED <<call, link_in, link_out, fmt, calls, heap>>

ClashMetaAdd ==
    /\ conf.kind = "clash-meta"
    /\ conf.calls < MaxAdds
    /\ \E remark \in ClashRemarks, inbound \in EncInbounds :
         conf' = Counted(conf, clash_meta_add(conf, remark, "server.example", inbound,
                                              SettingsOf(inbound.protocol)), remark)
    /\ UNCHANGED <<call, link_in, link_out, fmt, calls, heap>>

\* render of ClashConfiguration, which ClashMetaConfiguration inherits
ClashRender ==
    /\ Len(conf.renders) < MaxRenders
    /\ conf' = [clash_after_render(conf)
                EXCEPT !.renders = Append(@, clash_render(conf))]
    /\ UNCHANGED <<call, link_in, link_out, fmt, calls, heap>>

ClashNext ==
    \/ ClashAdd
    \/ ClashMetaAdd
    \/ ClashRender

SpecClash == ClashSpecInit /\ [][ClashNext]_vars

(***************************************************************************)
(* A sing-box configuration driven by add and render calls.                *)
(* conf.rendered tells that render was the last call.                      *)
(***************************************************************************)

\* outbounds of templates with their aggregators in different places
Scaffolds ==
    { Scaffold,
      << [type |-> "urltest", tag |-> "auto", outbounds |-> <<>>],
         [type |-> "direct", tag |-> "direct"],
         [type |-> "selector", tag |-> "proxy", outbounds |-> <<>>],
         [type |-> "urltest", tag |-> "fallback", outbounds |-> <<>>],
         [type |-> "selector", tag |-> "manual", outbounds |-> <<>>] >> }

\* remarks of the added outbounds; "auto" is also the tag of an aggregator
SingBoxRemarks == {"X", "Y", "auto"}

SingBoxInbounds ==
    {i \in EncInbounds : (i.tls = "tls") <=> (i.protocol \in {"vmess", "trojan"})}

SingBoxSpecInit ==
    /\ \E scaffold \in Scaffolds :
         conf = ("calls" :> 0) @@ ("rendered" :> FALSE) @@ SingBoxInit(scaffold)
    /\ call = NoCall
    /\ link_in = NoLink
    /\ link_out = NoLink
    /\ calls = NoCalls
    /\ heap = NoHeap
    /\ fmt = NoFmt

SingBoxAdd ==
    /\ conf.calls < MaxOutbounds
    /\ \E remark \in SingBoxRemarks, inbound \in SingBoxInbounds, same_obj \in BOOLEAN :
         conf' = [singbox_add(conf, remark, "server.example", inbound,
                              SettingsOf(inbound.protocol), same_obj)
                  EXCEPT !.calls = @ + 1, !.rendered = FALSE]
    /\ UNCHANGED <<call, link_in, link_out, fmt, calls, heap>>

SingBoxRender ==
    /\ ~conf.rendered
    /\ conf' = [singbox_render(conf) EXCEPT !.rendered = TRUE]
    /\ UNCHANGED <<call, link_in, link_out, fmt, calls, heap>>

SingBoxNext ==
    \/ SingBoxAdd
    \/ SingBoxRender

SpecSingBox == SingBoxSpecInit /\ [][SingBoxNext]_vars

(***************************************************************************)
(* The share-link builder applied to two endpoints.                        *)
(***************************************************************************)

LinkRemarks == {"X", "node 1"}

\* account settings of the protocols, two per protocol
LinkSettings(protocol) ==
    CASE protocol = "vmess" -> {[id |-> "uuid-1"], [id |-> "uuid-2"]}
      [] protocol = "vless" -> {[id |-> "uuid-1", flow |-> "xtls-rprx-vision"],
                                [id |-> "uuid-2", flow |-> "xtls-rprx-vision"]}
      [] protocol = "trojan" -> {[password |-> "pw:1", flow |-> ""],
                                 [password |-> "pw 2", flow |-> ""]}
      [] protocol = "shadowsocks" ->
           {[password |-> "pw-ss", method |-> "aes-256-gcm"],
            [password |-> "pw-ss", method |-> "chacha20-ietf-poly1305"]}

\* resolved inbounds whose TLS entries are set only in the TLS mode that uses
\* them, and that carry no transport or TLS entries for shadowsocks
LinkInbounds(protocol) ==
    IF protocol = "shadowsocks"
    THEN {[protocol |-> protocol, port |-> pt, network |-> "tcp", tls |-> "none",
           sni |-> EmptyStr, host |-> EmptyStr, path |-> "", header_type |-> ""] :
          pt \in {8388, 8389}}
    ELSE {[protocol |-> protocol, port |-> 443, network |-> "tcp", tls |-> "none",
           sni |-> EmptyStr, host |-> EmptyStr, path |-> "", header_type |-> "http",
           alpn |-> "", fp |-> ""],
          [protocol |-> protocol, port |-> 443, network |-> "ws", tls |-> "tls",
           sni |-> <<"sni.example">>, host |-> <<"host.example">>, path |-> "/ws",
           header_type |-> "none", alpn |-> "h2", fp |-> "chrome"],
          [protocol |-> protocol, port |-> 443, network |-> "grpc", tls |-> "tls",
           sni |-> <<"sni.example">>, host |-> EmptyStr, path |-> "svc",
           header_type |-> "none", alpn |-> "", fp |-> "chrome"],
          [protocol |-> protocol, port |-> 443, network |-> "tcp", tls |-> "reality",
           sni |-> <<"sni.example">>, host |-> EmptyStr, path |-> "",
           header_type |-> "none", alpn |-> "", fp |-> "chrome", pbk |-> "pbk-1",
           sid |-> "ab", spx |-> "/"]}

\* the arguments of get_v2ray_link
LinkInputs ==
    UNION {{[remark |-> r, address |-> "edge.example", inbound |-> i, settings |-> st] :
              r \in LinkRemarks, i \in LinkInbounds(p), st \in LinkSettings(p)} :
           p \in Protocols}

LinkSpecInit ==
    /\ link_in = NoLink
    /\ link_out = NoLink
    /\ calls = NoCalls
    /\ heap = NoHeap
    /\ conf = NoConf
    /\ call = NoCall
    /\ fmt = NoFmt

BuildLinks ==
    /\ link_in = NoLink
    /\ \E a \in LinkInputs, b \in LinkInputs :
         /\ link_in' = <<a, b>>
         /\ link_out' = <<get_v2ray_link(a.remark, a.address, a.inbound, a.settings),
                          get_v2ray_link(b.remark, b.address, b.inbound, b.settings)>>
    /\ UNCHANGED <<conf, call, fmt, calls, heap>>

LinkNext ==
    \/ BuildLinks

SpecLink == LinkSpecInit /\ [][LinkNext]_vars

(***************************************************************************)
(* setup_format_variables applied to one status snapshot.                  *)
(***************************************************************************)

\* expiry epochs around the clock; None stands for an absent expiry
Expires ==
    {0, 0 - 5, T0 - 2 * SecondsPerDay, T0 - SecondsPerDay, T0 - 1, T0, T0 + 1, T0 + 59,
     T0 + 3605, T0 + SecondsPerDay, T0 + 8 * SecondsPerDay + 3600,
     T0 + 40 * SecondsPerDay}

ExtraDatas ==
    {[username |-> "alice", used_traffic |-> u, status |-> st] :
        u \in {0, 40}, st \in {"active", "on_hold"}}
    \cup
    {[username |-> "alice", used_traffic |-> u, status |-> st, expire |-> e,
      data_limit |-> d] :
        u \in {0, 40}, st \in {"active", "on_hold"}, e \in Expires, d \in {0, 30}}

FmtSpecInit ==
    /\ \E extra_data \in ExtraDatas : fmt = [pc |-> "start", extra_data |-> extra_data]
    /\ conf = NoConf
    /\ call = NoCall
    /\ link_in = NoLink
    /\ link_out = NoLink
    /\ calls = NoCalls
    /\ heap = NoHeap

\* the seconds the clock can advance between the two reads
MaxAdvance == 1

Setup ==
    /\ fmt.pc = "start"
    /\ \E usec_zero \in BOOLEAN, advance \in 0..MaxAdvance :
         LET now1 == [sec |-> T0, usec_zero |-> usec_zero]
             now2 == [sec |-> T0 + advance, usec_zero |-> usec_zero]
         IN  fmt' = [pc |-> "done", extra_data |-> fmt.extra_data,
                     now1 |-> now1, now2 |-> now2,
                     format_variables |->
                         setup_format_variables(fmt.extra_data, now1, now2)]
    /\ UNCHANGED <<conf, call, link_in, link_out, calls, heap>>

FmtNext ==
    \/ Setup

SpecFmt == FmtSpecInit /\ [][FmtNext]_vars

(***************************************************************************)
(* Properties                                                              *)
(***************************************************************************)

\* C1: after any sequence of add calls on a Clash or Clash-Meta
\* configuration the names of the nodes in data['proxies'] are pairwise
\* distinct.
C1_NamesDistinct ==
    \A i, j \in DOMAIN conf.proxies :
        i # j => conf.proxies[i].name # conf.proxies[j].name

\* the remark the n-th add of one and the same remark is meant to store
NthName(remark, n) == IF n = 1 THEN remark ELSE Suffixed(remark, n)

\* C2: as long as every add asked for the same remark X, the n-th stored
\* node is named X for n = 1 and "X (n)" after that, and the name stored in
\* the node is the name appended to proxy_remarks.
C2_NthRemark ==
    \A n \in DOMAIN conf.proxies :
        (\A k \in 1..n : conf.requested[k] = conf.requested[1])
        => /\ conf.proxies[n].name = NthName(conf.requested[1], n)
           /\ conf.proxy_remarks[n] = conf.proxies[n].name

\* a resolved SNI or host string holds no wildcard and no salt but the call's
Clean(str, c) == "*" \notin Range(str) /\ Range(str) \cap (Salts \ {c.salt}) = {}

\* str is some entry of list with every wildcard replaced by the call's salt
SaltedFrom(str, list, c) ==
    IF list = <<>> THEN str = EmptyStr
    ELSE \E i \in DOMAIN list :
            /\ Len(str) = Len(list[i])
            /\ \A k \in DOMAIN str :
                 str[k] = IF list[i][k] = "*" THEN c.salt ELSE list[i][k]

\* C3: one call generates exactly one salt, before it resolves any endpoint,
\* and every wildcard of every chosen SNI and host string of the call is
\* replaced by that salt: no resolved SNI or host holds another salt or a
\* remaining wildcard.
C3_OneSalt ==
    /\ call.pc \in {"request", "unsupported", "start"}
         => call.salts_generated = 0 /\ call.handed = <<>> /\ call.host_inbound = EmptyDict
    /\ call.pc \notin {"request", "unsupported", "start"}
         => call.salts_generated = 1 /\ call.salt \in Salts
    /\ call.pc \in {"emit", "raised"}
         => /\ SaltedFrom(call.host_inbound.sni,
                          OrList(CurHost(call).sni, CurInbound(call).sni), call)
            /\ SaltedFrom(call.host_inbound.host,
                          OrList(CurHost(call).host, CurInbound(call).host), call)
            /\ Clean(call.host_inbound.sni, call)
            /\ Clean(call.host_inbound.host, call)
    /\ \A i \in DOMAIN call.handed :
         Clean(call.handed[i].inbound.sni, call) /\ Clean(call.handed[i].inbound.host, call)

\* two endpoints of one call carry the salt, one of them twice in its host
C3_Witness ==
    /\ call.pc = "emit"
    /\ Len(call.handed) >= 1
    /\ call.salt \in Range(call.handed[1].inbound.sni)
    /\ Cardinality({k \in DOMAIN call.host_inbound.host :
                       call.host_inbound.host[k] = call.salt}) >= 2

\* a template has a replacement field the mapping lacks
HasUnknownKey(c) ==
    \/ RaisesKeyError(CurHost(c).remark, c.format_variables)
    \/ RaisesKeyError(CurHost(c).address, c.format_variables)

\* the text of a template when a field the mapping lacks stays as it is
RECURSIVE FormatKeeping(_, _)
FormatKeeping(template, format_variables) ==
    IF template = <<>> THEN ""
    ELSE (IF Has(Head(template), "key") /\ ~Has(format_variables, Head(template).key)
          THEN "{" \o Head(template).key \o "}"
          ELSE PartText(Head(template), format_variables))
         \o FormatKeeping(Tail(template), format_variables)

\* C4: a remark or address template with a placeholder the format variables
\* lack is substituted with that placeholder left as literal text, and the
\* call goes on without raising.
C4_UnknownPlaceholderKept ==
    [][(call.pc = "emit" /\ HasUnknownKey(call))
        => /\ call'.pc = "host"
           /\ call'.handed[Len(call'.handed)].remark
                = FormatKeeping(CurHost(call).remark, call.format_variables)
           /\ call'.handed[Len(call'.handed)].address
                = FormatKeeping(CurHost(call).address, call.format_variables)]_vars

\* an endpoint without TLS fields
TlsFree(inbound) ==
    /\ Get(inbound, "tls", "none") \notin {"tls", "reality"}
    /\ Get(inbound, "sni", EmptyStr) = EmptyStr
    /\ Get(inbound, "alpn", "") = ""
    /\ Get(inbound, "fp", "") = ""

\* the nodes or outbounds a configuration holds
Built(conf_) ==
    IF conf_.kind \in {"clash", "clash-meta"} THEN conf_.proxies
    ELSE IF conf_.kind = "sing-box" THEN conf_.outbounds
    ELSE <<>>

\* C5: a shadowsocks endpoint reaches the encoder without TLS fields (tls
\* mode, sni, alpn, fingerprint) and no shadowsocks Clash node or sing-box
\* outbound holds a TLS block.
C5_NoTlsForShadowsocks ==
    /\ \A i \in DOMAIN call.handed :
         call.handed[i].inbound.protocol = "shadowsocks" => TlsFree(call.handed[i].inbound)
    /\ \A i \in DOMAIN Built(call.conf) :
         Built(call.conf)[i].type = "shadowsocks" => ~Has(Built(call.conf)[i], "tls")

IsProxy(outbound) == outbound.type \in {"vmess", "vless", "trojan", "shadowsocks"}

IsProxyOrUrltest(outbound) == IsProxy(outbound) \/ outbound.type = "urltest"

\* the tags of the outbounds that pass Test, in the order of the outbounds
TagsWhere(outbounds, Test(_)) ==
    LET sel == SelectSeq(outbounds, Test) IN [i \in DOMAIN sel |-> sel[i].tag]

TagsDistinct(outbounds) ==
    \A i, j \in DOMAIN outbounds : i # j => outbounds[i].tag # outbounds[j].tag

SameLink(a, b) == a.scheme = b.scheme /\ a.parts = b.parts

\* C7: decoding the URI of the share-link builder recovers every input
\* field, so two endpoints that differ in a field never get the same URI.
C7_RoundTrip ==
    link_out # NoLink
        => (SameLink(link_out[1], link_out[2]) => link_in[1] = link_in[2])

\* the (protocol, tag, host override) positions of the tag at <<p, t>>, none
\* when the protocol has no settings or the tag no inbound definition
HostTriples(c, p, t) ==
    LET tag == c.inbounds[p].tags[t]
    IN  IF Has(c.proxies, c.inbounds[p].protocol) /\ Has(c.inbounds_by_tag, tag)
        THEN [h \in 1..Len(Get(c.hosts, tag, <<>>)) |-> <<p, t, h>>]
        ELSE <<>>

RECURSIVE TagTriples(_, _, _)
TagTriples(c, p, t) ==
    IF t > Len(c.inbounds[p].tags) THEN <<>>
    ELSE HostTriples(c, p, t) \o TagTriples(c, p, t + 1)

\* all such positions from protocol p on, in iteration order
RECURSIVE Triples(_, _)
Triples(c, p) ==
    IF p > Len(c.inbounds) THEN <<>>
    ELSE TagTriples(c, p, 1) \o Triples(c, p + 1)

\* the URIs the position tr can give, one per outcome of the random choices
LinksOf(c, tr) ==
    LET protocol == c.inbounds[tr[1]].protocol
        inbound  == c.inbounds_by_tag[c.inbounds[tr[1]].tags[tr[2]]]
        host     == c.hosts[c.inbounds[tr[1]].tags[tr[2]]][tr[3]]
        fv       == Put(Put(c.format_variables, "PROTOCOL", ProtocolName(protocol)),
                        "TRANSPORT", inbound.network)
    IN  {get_v2ray_link(format_map(host.remark, fv), format_map(host.address, fv),
                        UpdateHostInbound(inbound, host, inbound, sni, req_host),
                        c.proxies[protocol]) :
            sni \in Choices(OrList(host.sni, inbound.sni), c.salt),
            req_host \in Choices(OrList(host.host, inbound.host), c.salt)}

\* C8: in link-list mode the call returns one URI per (protocol, tag, host
\* override) whose protocol has settings and whose tag has an inbound
\* definition, in iteration order; a protocol without settings, a tag
\* without definition or a tag without host overrides adds nothing, leaves
\* the other entries as they are and raises nothing: the links collected so
\* far are always those of the first positions in order, and a call that
\* raised did so in the substitution of a template.
C8_OneLinkPerTriple ==
    /\ (call.pc = "done" /\ call.mode = "v2ray")
         => /\ Len(call.ret.links) = Len(Triples(call, 1))
            /\ \A i \in DOMAIN call.ret.links :
                 call.ret.links[i] \in LinksOf(call, Triples(call, 1)[i])
    /\ call.mode = "v2ray"
         => /\ Len(call.results) <= Len(Triples(call, 1))
            /\ \A i \in DOMAIN call.results :
                 call.results[i] \in LinksOf(call, Triples(call, 1)[i])
    /\ call.pc = "raised" => HasUnknownKey(call)

\* a link list was returned although the first protocol or tag was skipped
C8_Witness ==
    /\ call.pc = "done"
    /\ call.mode = "v2ray"
    /\ Len(call.ret.links) >= 1
    /\ Triples(call, 1)[1] \in {<<1, 2, 1>>, <<2, 1, 1>>}

\* C9: the resolved port, ALPN and fingerprint are the host override's when
\* it has one and the inbound's otherwise; the TLS mode is the inbound's only
\* when the override's is None, an empty one is used as it is.
C9_OverrideOrInbound ==
    call.pc \in {"emit", "raised"} =>
        LET h == CurHost(call)
            i == CurInbound(call)
            r == call.host_inbound
        IN  /\ r.port = IF h.port # 0 THEN h.port ELSE i.port
            /\ r.alpn = IF h.alpn \notin {None, ""} THEN h.alpn
                        ELSE IF Has(i, "alpn") THEN i.alpn ELSE ""
            /\ r.fp = IF h.fingerprint \notin {None, ""} THEN h.fingerprint
                      ELSE IF Has(i, "fp") THEN i.fp ELSE ""
            /\ h.tls = None => r.tls = i.tls
            /\ h.tls # None => r.tls = h.tls

\* the second override of a TLS inbound sets an empty TLS mode, after a first
\* override that set its own port, ALPN and fingerprint
C9_Witness ==
    /\ call.pc = "emit"
    /\ call.hi = 2
    /\ CurHosts(call)[1].port # 0
    /\ CurHost(call).tls = ""
    /\ CurInbound(call).tls = "tls"
    /\ call.host_inbound.tls = ""
    /\ call.host_inbound.port = CurInbound(call).port

\* C10: an expiry that is 0, negative or absent gives the unlimited sentinel
\* for DAYS_LEFT and TIME_LEFT; a positive expiry at or before the current
\* time gives DAYS_LEFT 0 and the omit sentinel for TIME_LEFT, which is not
\* the unlimited sentinel.
C10_ExpirySentinels ==
    fmt.pc = "done" =>
        LET expire == Get(fmt.extra_data, "expire", 0)
            fv     == fmt.format_variables
        IN  /\ expire <= 0
                 => fv.DAYS_LEFT = StrV(INFINITY) /\ fv.TIME_LEFT = StrV(INFINITY)
            /\ (expire > 0 /\ expire <= fmt.now1.sec)
                 => /\ fv.DAYS_LEFT = IntV(0)
                    /\ fv.TIME_LEFT = IntV(0)
                    /\ fv.TIME_LEFT # StrV(INFINITY)

\* the expiry lies before the first clock read
StrictlyPast(expire, now) == expire < now.sec \/ (expire = now.sec /\ ~now.usec_zero)

\* C10, amended: an expiry that is 0, negative or absent gives the unlimited
\* sentinel for DAYS_LEFT and TIME_LEFT; a positive expiry strictly before the
\* current time gives DAYS_LEFT 0 and the omit sentinel 0 for TIME_LEFT, which
\* is not the unlimited sentinel.
C10_ExpirySentinelsStrict ==
    fmt.pc = "done" =>
        LET expire == Get(fmt.extra_data, "expire", 0)
            fv     == fmt.format_variables
        IN  /\ expire <= 0
                 => fv.DAYS_LEFT = StrV(INFINITY) /\ fv.TIME_LEFT = StrV(INFINITY)
            /\ (expire > 0 /\ StrictlyPast(expire, fmt.now1))
                 => /\ fv.DAYS_LEFT = IntV(0)
                    /\ fv.TIME_LEFT = IntV(0)
                    /\ fv.TIME_LEFT # StrV(INFINITY)

\* the expiry lies less than a second before the clock read
C10_Witness ==
    /\ fmt.pc = "done"
    /\ Has(fmt.extra_data, "expire")
    /\ fmt.extra_data.expire = fmt.now1.sec
    /\ ~fmt.now1.usec_zero
    /\ fmt.format_variables.DAYS_LEFT = IntV(0)
    /\ fmt.format_variables.TIME_LEFT = IntV(0)

\* a render call of the Clash configuration is the step that extends
\* conf.renders
IsClashRender == Len(conf'.renders) > Len(conf.renders)

\* C11: a render call on a Clash or Clash-Meta configuration leaves the node
\* list and the remark registry as they were, and a render that follows a
\* render with no add in between returns the text the earlier one returned.
C11_RenderKeepsState ==
    [][IsClashRender =>
         /\ conf'.proxies = conf.proxies
         /\ conf'.proxy_remarks = conf.proxy_remarks
         /\ \A i \in DOMAIN conf.renders :
              conf'.renders[Len(conf'.renders)] = conf.renders[i]]_vars

\* two renders of a configuration that holds nodes, with no add in between
C11_Witness ==
    /\ Len(conf.proxies) >= 2
    /\ Len(conf.renders) = 2
    /\ conf.renders[2].conf.proxies = conf.proxies
    /\ conf.renders[2].proxy_remarks = conf.proxy_remarks

\* C13: a request whose config_format is none of 'v2ray', 'clash-meta',
\* 'clash' and 'sing-box' ends in a ValueError whose message carries the
\* requested format; no encoder and no format variables are built, no salt
\* is drawn, no endpoint is resolved or handed on and nothing is returned.
C13_UnsupportedFormat ==
    call.config_format \notin Formats
    => /\ call.pc \in {"request", "unsupported"}
       /\ call.pc = "unsupported"
            => call.error = "ValueError: Unsupported format \"" \o call.config_format \o "\""
       /\ call.conf = [kind |-> None]
       /\ call.format_variables = EmptyDict
       /\ call.salts_generated = 0
       /\ call.host_inbound = EmptyDict
       /\ call.handed = <<>>
       /\ call.results = <<>>
       /\ call.ret = None

\* the request for an unknown format has failed, for a user whose inbounds,
\* settings and host overrides would have produced endpoints
C13_Witness ==
    /\ call.config_format = "outline"
    /\ call.pc = "unsupported"
    /\ \E t \in DOMAIN call.inbounds_by_tag :
         /\ Len(call.hosts[t]) >= 1
         /\ Has(call.proxies, call.inbounds_by_tag[t].protocol)

\* the call runs in Clash or sing-box mode
EncoderMode == call.mode \in {"clash", "sing-box"}

\* C14: in a generation call in Clash or sing-box mode render runs exactly
\* once: never twice, only when every add of the call is done (one per
\* protocol, tag and host override with settings and an inbound definition,
\* none when there is no such triple), no add and no change of the encoder
\* follows it, and a call that has ended has run it.
C14_RenderOnceAfterAdds ==
    /\ [](EncoderMode =>
            /\ call.renders <= 1
            /\ call.renders = 1 => Len(call.handed) = Len(Triples(call, 1))
            /\ call.pc \in {"done", "raised"} => call.renders = 1)
    /\ [][(EncoderMode /\ call.renders = 1)
            => (call'.handed = call.handed /\ call'.conf = call.conf)]_vars

\* setup_format_variables took the branch that calls format_time_left: the
\* expiry is positive and the corrected day count of its own clock read is
\* positive
NotExpiredBranch ==
    /\ fmt.pc = "done"
    /\ Get(fmt.extra_data, "expire", 0) > 0
    /\ DeltaDays(fmt.extra_data.expire, fmt.now1) + 1 > 0

\* C15: when setup_format_variables takes the not-expired branch, TIME_LEFT
\* is a non-empty duration string and never None, whatever the clock reads
\* when format_time_left reads it again.
C15_TimeLeftIsString ==
    NotExpiredBranch =>
        /\ Has(fmt.format_variables.TIME_LEFT, "str")
        /\ fmt.format_variables.TIME_LEFT.str # ""

\* the remarks the call of record c can hand on: the remark templates of
\* the host registry filled with the format variables of its own user
OwnRemarks(c) ==
    {format_map(c.hosts[t][k].remark,
                Put(Put(setup_format_variables(c.extra_data, Now, Now),
                        "PROTOCOL", ProtocolName(c.inbounds_by_tag[t].protocol)),
                    "TRANSPORT", c.inbounds_by_tag[t].network)) :
        t \in {u \in DOMAIN c.hosts : c.hosts[u] # <<>>}, k \in 1..1}

\* the remarks the encoder of record c holds
EncoderRemarks(c) ==
    IF c.conf.kind \in {"clash", "clash-meta"}
    THEN Range(c.conf.proxy_remarks) \cup {c.conf.proxies[k].name : k \in DOMAIN c.conf.proxies}
    ELSE IF c.conf.kind = "sing-box"
    THEN {c.conf.outbounds[k].tag : k \in {n \in DOMAIN c.conf.outbounds :
                                              IsProxy(c.conf.outbounds[n])}}
    ELSE {}

\* what call record c holds is derived from its own inputs
OwnOutput(c) ==
    /\ \A k \in DOMAIN c.handed :
         /\ c.handed[k].remark \in OwnRemarks(c)
         /\ Clean(c.handed[k].inbound.sni, c)
         /\ Clean(c.handed[k].inbound.host, c)
         /\ c.handed[k].settings \in Range(c.proxies)
    /\ EncoderRemarks(c) \subseteq {c.handed[k].remark : k \in DOMAIN c.handed}
    /\ c.mode \in {"clash", "sing-box"} => Len(Built(c.conf)) - Len(Built(NewConf(c.config_format))) <= Len(c.handed)
    /\ c.mode = "v2ray" =>
         /\ Len(c.results) = Len(c.handed)
         /\ \A k \in DOMAIN c.results :
              SameLink(c.results[k],
                       get_v2ray_link(c.handed[k].remark, c.handed[k].address,
                                      c.handed[k].inbound, c.handed[k].settings))

\* the object fields of a frame
ObjectFields == {"conf", "format_variables", "results", "host_inbound"}

\* C12: two generation calls whose steps interleave never hold the same
\* encoder, format-variable dict, results list or host_inbound object; a
\* step of one call leaves everything the other call holds as it was, so
\* each call goes through the steps it would take alone; and the endpoints,
\* remarks, salt substitutions and encoder content of each call are derived
\* from its own user's inputs and its own salt.
C12_CallsIsolated ==
    /\ [](\A x \in ObjectFields : calls[1][x] = 0 \/ calls[1][x] # calls[2][x])
    /\ [](\A i \in 1..2 : OwnOutput(LoadCall(heap, calls[i])))
    /\ [][\A i \in 1..2 :
            \/ LoadCall(heap', calls'[i]) = LoadCall(heap, calls[i])
            \/ /\ LoadCall(heap', calls'[i]) \in CallSteps(LoadCall(heap, calls[i]))
               /\ LoadCall(heap', calls'[3 - i]) = LoadCall(heap, calls[3 - i])]_vars

\* both calls are inside their loops, each with an endpoint in its own
\* encoder, with different salts and different modes
C12_Witness ==
    /\ \A i \in 1..2 :
         /\ calls[i].pc = "host"
         /\ Len(calls[i].handed) = 1
         /\ Len(Built(LoadCall(heap, calls[i]).conf)) > Len(Built(NewConf(calls[i].config_format)))
    /\ calls[1].salt # calls[2].salt
    /\ calls[1].config_format = "clash"
    /\ calls[2].config_format = "sing-box"

====
